---- MODULE Spec2Model ----
(***************************************************************************)
(* factu_mail_reader: the mail-processing cycle of MailProcessor           *)
(* (src/src/processor.js) as it is constructed and driven by main          *)
(* (src/src/main.js), and the extraction of BillingParser                  *)
(* (src/src/parser.js).                                                    *)
(*                                                                         *)
(* One cycle is one call of processMessages().  #fetchMessages enumerates  *)
(* the mailbox; #processMessage classifies each message and starts, but    *)
(* does not await, #processXmlPdfNode or #processZipNode.  Each started    *)
(* call is an asynchronous task that advances at its `await` points, so    *)
(* tasks of different messages interleave with each other and with the     *)
(* enumeration loop.                                                       *)
(*                                                                         *)
(* Spec        one cycle, every step of its tasks                          *)
(* ParserSpec  one call of BillingParser.parse on a parsed XML file        *)
(* DriverSpec  main's loop: several cycles over the same mailbox           *)
(***************************************************************************)
EXTENDS Integers, Sequences, FiniteSets, TLC

\* ------------------------------------------------------------------ bounds
MaxMsgs == 2
MaxEntries == 2
MaxCalls == 2
MaxBundles == 1

\* ------------------------------------------------------- program constants
\* processor.js:98   4 * 1024 * 1024
SizeLimit == 4194304

Undefined == "undefined"
Null == "null"

\* ------------------------------------------------------------------ strings
\* A JavaScript string is a tuple of one-character strings.
Lower(c) ==
    CASE c = "X" -> "x" [] c = "M" -> "m" [] c = "L" -> "l"
      [] c = "P" -> "p" [] c = "D" -> "d" [] c = "F" -> "f"
      [] c = "Z" -> "z" [] c = "I" -> "i" [] OTHER -> c

toLowerCase(s) == [i \in DOMAIN s |-> Lower(s[i])]

includes(s, sub) ==
    \E i \in 0..(Len(s) - Len(sub)) : SubSeq(s, i + 1, i + Len(sub)) = sub

DotXml == <<".", "x", "m", "l">>
DotPdf == <<".", "p", "d", "f">>
DotZip == <<".", "z", "i", "p">>

\* ------------------------------------------------------ mailbox contents
\* A node of bodyStructure.childNodes.  filename is
\* dispositionParameters?.filename; <<>> stands for a missing (or empty)
\* one, which `!filename` treats alike.
Node(part, filename) == [part |-> part, filename |-> filename]

\* A message's bodyStructure: a multipart message has childNodes, any other
\* message has none (childNodes is undefined).
Multipart(nodes) == [multipart |-> TRUE, childNodes |-> nodes]
SinglePart == [multipart |-> FALSE, childNodes |-> <<>>]

\* the body structures the Mail Session may enumerate
BodyStructures ==
    { Multipart(<<Node("1", <<"f", ".", "x", "m", "l">>),
                  Node("2", <<"f", ".", "p", "d", "f">>)>>),
      Multipart(<<Node("1", <<"f", ".", "z", "i", "p">>)>>),
      Multipart(<<Node("1", <<"F", ".", "X", "M", "L">>),
                  Node("2", <<"f", ".", "P", "d", "f">>),
                  Node("3", <<"f", ".", "z", "i", "p">>)>>),
      Multipart(<<Node("1", <<>>), Node("2", <<"f", ".", "t", "x", "t">>)>>),
      Multipart(<<Node("1", <<"f", ".", "x", "m", "l">>),
                  Node("2", <<"g", ".", "x", "m", "l">>),
                  Node("3", <<"f", ".", "p", "d", "f">>)>>),
      SinglePart }

\* paths of the entries an archive stream may yield
EntryPaths ==
    { <<"f", ".", "x", "m", "l">>, <<"f", ".", "p", "d", "f">>, <<"r", ".", "t", "x", "t">> }

\* meta.expectedSize of a downloaded bundle
Sizes == {SizeLimit, SizeLimit + 1}

\* --------------------------------------------------- objects and dispatch
\* The methods each collaborator object has; calling any other property
\* raises a TypeError.
Methods(obj) ==
    CASE obj = "Logger" -> {"info", "error"}
      [] obj = "BillingParser" -> {"parse"}
      [] obj = "MailboxLock" -> {"release"}
      [] obj = "ImapFlow" -> {"fetch", "download", "messageMove", "logout"}
      [] OTHER -> {}

Callable(obj, method) == method \in Methods(obj)

Arg(args, i) == IF i <= Len(args) THEN args[i] ELSE Undefined

\* constructor(client, lock, log, parser)
Constructor(args) ==
    [client |-> Arg(args, 1), lock |-> Arg(args, 2),
     log |-> Arg(args, 3), parser |-> Arg(args, 4)]

\* new MailProcessor(client, log, billingParser) in main
MainArgs == <<"ImapFlow", "Logger", "BillingParser">>
\* the arguments the constructor documents
DocumentedArgs == <<"ImapFlow", "MailboxLock", "Logger", "BillingParser">>

VARIABLES
    fields,      \* the private fields #client, #lock, #log, #parser
    inbox,       \* the messages fetch('1:*') enumerates, by position
    proc,        \* "running", "exited" (process.exit(1)) or "crashed"
    fetchPc,     \* position of #fetchMessages
    cur,         \* number of messages the enumeration has yielded
    fatal,       \* what raised the exception caught at processor.js:225
    releases,    \* calls of #lock.release()
    logouts,     \* calls of #client.logout()
    task,        \* per message: the state of its #process...Node call
    xmlFile,     \* the file BillingParser.parse is called with
    answer,      \* <<>> before that call, <<how it ended>> after it
    calls,       \* calls of processMessages() that main has made
    cycle,       \* per call: the position of its #fetchMessages
    present,     \* the messages still in the mailbox that is enumerated
    job,         \* per call and message: the position of the started task
    builds,      \* per message: runs of the Document Builder
    moveRequests \* per message: calls of messageMove

vars == <<fields, inbox, proc, fetchPc, cur, fatal, releases, logouts, task>>

\* the variables of a BillingParser.parse call taken by itself
pvars == <<xmlFile, answer>>

\* the variables of main's loop over several calls of processMessages()
dvars == <<calls, cycle, present, job, builds, moveRequests>>

Uids == 1..MaxMsgs

\* ------------------------------------------------------------ BillingParser
\* A parsed XML tree is a record that has a field for each child element
\* present.  The value of an expression is a tuple: <<v>> for the value v,
\* <<>> for undefined or null, the two values that ?? and ?. skip.
Nullish == <<>>

\* o.k on an object o
Get(o, k) == IF k \in DOMAIN o THEN <<o[k]>> ELSE Nullish

\* x?.k on a value x
OptGet(x, k) == IF x = Nullish THEN Nullish ELSE Get(x[1], k)

\* a ?? b
Coalesce(a, b) == IF a = Nullish THEN b ELSE a

\* how a call ends: it returns v or it throws e
Return(v) == [threw |-> FALSE, v |-> v]
Throw(e) == [threw |-> TRUE, v |-> e]

\* document.ParentDocumentID without the comparison to 'null'
ParentDocumentID_Verbatim(document) == Get(document, "ParentDocumentID")

\* document.ParentDocumentID === 'null' ? null : document.ParentDocumentID ?? null
ParentDocumentID(document) ==
    IF Get(document, "ParentDocumentID") = <<"null">> THEN Nullish
    ELSE Coalesce(Get(document, "ParentDocumentID"), Nullish)

\* #extractID(document, attachment).  The operands of ?? are evaluated from
\* the left and only while the ones before them were null or undefined;
\* document.ParentDocumentLineReference?.DocumentReference.ID reads .ID
\* of an undefined DocumentReference when the reference has none.
extractID(document, attachment) ==
    LET early == Coalesce(Get(attachment, "ID"),
                 Coalesce(OptGet(Get(attachment, "Invoice"), "ID"),
                 Coalesce(OptGet(Get(attachment, "CreditNote"), "ID"),
                 Coalesce(ParentDocumentID(document),
                          Get(document, "AltID")))))
        lineReference == Get(document, "ParentDocumentLineReference")
        documentReference == OptGet(lineReference, "DocumentReference")
    IN  IF early # Nullish THEN Return(early)
        ELSE IF lineReference # Nullish /\ documentReference = Nullish
        THEN Throw("TypeError")
        ELSE Return(Coalesce(OptGet(documentReference, "ID"),
                    Coalesce(Get(document, "ID"), <<"">>)))

\* #extractCUFE(document)
extractCUFE(document) ==
    Coalesce(Get(document, "UUID"),
    Coalesce(OptGet(OptGet(Get(document, "ParentDocumentLineReference"),
                           "DocumentReference"), "UUID"),
             <<"">>))

\* #extractEntityData(entity): entity?.PartyTaxScheme.CompanyID reads
\* .CompanyID of an undefined PartyTaxScheme when the entity has none.
extractEntityData(entity) ==
    IF entity = Nullish THEN Return([nit |-> <<"">>, nombre |-> <<"">>])
    ELSE IF Get(entity[1], "PartyTaxScheme") = Nullish THEN Throw("TypeError")
    ELSE LET scheme == entity[1].PartyTaxScheme
         IN  Return([nit |-> Coalesce(Get(scheme, "CompanyID"), <<"">>),
                     nombre |-> Coalesce(Get(scheme, "RegistrationName"), <<"">>)])

\* #extractValue(attachment)
extractValue(attachment) ==
    Coalesce(OptGet(OptGet(Get(attachment, "Invoice"), "LegalMonetaryTotal"),
                    "PayableAmount"),
    Coalesce(OptGet(Get(attachment, "LegalMonetaryTotal"), "PayableAmount"),
             <<0>>))

\* The text of an XML document is Xml(tree), tree being what the XMLParser
\* makes of it.
Xml(tree) == [xml |-> tree]
XMLParser_parse(text) == text.xml

\* #extractAttachment(document): each property is read with a plain `.`, so
\* a document without Attachment, ExternalReference, Description or CDATA
\* section raises a TypeError.  (The parser hands over the CDATA text
\* without its markers; the two replace calls find nothing to remove.)
extractAttachment(document) ==
    LET reference == OptGet(Get(document, "Attachment"), "ExternalReference")
        description == OptGet(reference, "Description")
        cdata == OptGet(description, "__cdata")
    IN  IF cdata = Nullish THEN Throw("TypeError")
        ELSE Return(XMLParser_parse(cdata[1]))

\* the object literal both extractors return, its properties evaluated in
\* order: the first that throws ends the call
BillingOf(id, cufe, date, value, proveedor, cliente) ==
    IF id.threw THEN id
    ELSE IF proveedor.threw THEN proveedor
    ELSE IF cliente.threw THEN cliente
    ELSE Return([id |-> id.v, cufe |-> cufe, date |-> date, value |-> value,
                 proveedor |-> proveedor.v, cliente |-> cliente.v])

\* #extractBilling(document), for an AttachedDocument
extractBilling(document) ==
    LET attachment == extractAttachment(document)
    IN  IF attachment.threw THEN attachment
        ELSE BillingOf(extractID(document, attachment.v),
                       extractCUFE(document),
                       Get(document, "IssueDate"),
                       extractValue(attachment.v),
                       extractEntityData(Coalesce(Get(document, "SenderParty"),
                           OptGet(Get(document, "AccountingSupplierParty"), "Party"))),
                       extractEntityData(Coalesce(Get(document, "ReceiverParty"),
                           OptGet(Get(document, "AccountingCustomerParty"), "Party"))))

\* x.Party, a TypeError when x is undefined
PartyOf(x) == IF x = Nullish THEN Throw("TypeError") ELSE Return(Get(x[1], "Party"))

\* extractEntityData(document.AccountingSupplierParty.Party)
extractPartyData(wrapper) ==
    IF PartyOf(wrapper).threw THEN PartyOf(wrapper)
    ELSE extractEntityData(PartyOf(wrapper).v)

\* #extractAttachmentBilling(document), for an Invoice or a CreditNote
extractAttachmentBilling(document) ==
    LET attachment == extractAttachment(document)
    IN  IF attachment.threw THEN attachment
        ELSE BillingOf(extractID(document, attachment.v),
                       Get(document, "UUID"),
                       Get(document, "IssueDate"),
                       extractValue(document),
                       extractPartyData(Get(document, "AccountingSupplierParty")),
                       extractPartyData(Get(document, "AccountingCustomerParty")))

\* A file at xmlPath: the tree the XMLParser makes of its content, or no
\* tree when it cannot be read.
Unreadable == [readable |-> FALSE]
File(parsedXML) == [readable |-> TRUE, parsedXML |-> parsedXML]

\* #parseXML(xmlPath).  A rejected readFile leaves the function before its
\* try block; whatever an extractor throws is replaced at line 177.
parseXML(file) ==
    IF ~file.readable THEN Throw("IOError")
    ELSE LET parsedXML == file.parsedXML
             found == CASE Get(parsedXML, "Invoice") # Nullish ->
                             extractAttachmentBilling(parsedXML.Invoice)
                        [] Get(parsedXML, "CreditNote") # Nullish ->
                             extractAttachmentBilling(parsedXML.CreditNote)
                        [] OTHER -> extractBilling(parsedXML.AttachedDocument)
         IN  IF /\ Get(parsedXML, "Invoice") = Nullish
                /\ Get(parsedXML, "AttachedDocument") = Nullish
                /\ Get(parsedXML, "CreditNote") = Nullish
             THEN Throw("UnrecognizedDocument")
             ELSE IF found.threw THEN Throw("ExtractionError") ELSE found

\* !x for a string or an undefined x
Not(x) == x = Nullish \/ x = <<"">>

\* parse without the test of data.id
parse_AnyId(file) == parseXML(file)

\* parse(xmlPath)
parse(file) ==
    LET data == parseXML(file)
    IN  IF data.threw THEN data
        ELSE IF Not(data.v.id) THEN Throw("MissingInvoiceId")
        ELSE data

\* ---------------------------------------------------------- XML documents
\* an element without children
EmptyObject == [k \in {} |-> Nullish]

\* the property k of an object literal, left out when x is undefined
Field(k, x) == IF x = Nullish THEN EmptyObject ELSE k :> x[1]

\* a Party element with its PartyTaxScheme
Party(nit, nombre) ==
    [PartyTaxScheme |-> [CompanyID |-> nit, RegistrationName |-> nombre]]

\* the values each element of a primary document may have
IDs == {Nullish, <<"">>, <<"X">>}
UUIDs == {Nullish, <<"Y">>}
ParentDocumentIDs == {Nullish, <<"null">>, <<"P">>}
AltIDs == {Nullish, <<"A">>}
LineReferences ==
    {Nullish, <<[LineID |-> "1"]>>,
     <<[LineID |-> "1", DocumentReference |-> [ID |-> "R", UUID |-> "U"]]>>}
MonetaryTotals == {Nullish, <<[PayableAmount |-> 100]>>}
SupplierParties ==
    {Nullish, <<[AdditionalAccountID |-> "1"]>>,
     <<[Party |-> [PartyName |-> "A"]]>>, <<[Party |-> Party("1", "A")]>>}
CustomerParties == {Nullish, <<[Party |-> Party("2", "B")]>>}
SenderParties == {Nullish, <<Party("1", "A")>>}

\* the trees an embedded document may parse to
EmbeddedDocuments ==
    {[Invoice |-> [ID |-> "N", LegalMonetaryTotal |-> [PayableAmount |-> 200]]],
     [Invoice |-> [ID |-> ""]],
     [Invoice |-> [IssueDate |-> "2024-01-01"]],
     [CreditNote |-> [ID |-> "C"]],
     [ID |-> "I", LegalMonetaryTotal |-> [PayableAmount |-> 300]],
     [ApplicationResponse |-> [IssueDate |-> "2024-01-01"]]}

\* the Attachment element: missing, without a Description, or carrying an
\* embedded document as CDATA
Attachments ==
    {Nullish, <<[ExternalReference |-> [MimeCode |-> "text/xml"]]>>}
    \cup {<<[ExternalReference |-> [Description |-> [__cdata |-> Xml(tree)]]]>> :
             tree \in EmbeddedDocuments}

\* the primary documents
Documents ==
    {Field("ID", id) @@ Field("UUID", uuid) @@ [IssueDate |-> "2024-01-01"]
        @@ Field("ParentDocumentID", parent) @@ Field("AltID", alt)
        @@ Field("ParentDocumentLineReference", line)
        @@ Field("LegalMonetaryTotal", total) @@ Field("Attachment", attachment)
        @@ Field("AccountingSupplierParty", supplier)
        @@ Field("AccountingCustomerParty", customer)
        @@ Field("SenderParty", sender) :
     id \in IDs, uuid \in UUIDs, parent \in ParentDocumentIDs, alt \in AltIDs,
     line \in LineReferences, total \in MonetaryTotals, attachment \in Attachments,
     supplier \in SupplierParties, customer \in CustomerParties,
     sender \in SenderParties}

Variants == {"Invoice", "CreditNote", "AttachedDocument"}

\* the files parse may be called with
XmlFiles ==
    {File(variant :> document) : variant \in Variants, document \in Documents}
    \cup {File([ApplicationResponse |-> [ID |-> "X"]]), Unreadable}

\* ------------------------------------------------------- classification
\* one iteration of the loop over msg.bodyStructure.childNodes
ClassifyNode(acc, node) ==
    IF node.filename = <<>>
    THEN acc
    ELSE LET lower == toLowerCase(node.filename)
             a1 == IF includes(lower, DotXml) THEN [acc EXCEPT !.xmlNode = node.part] ELSE acc
             a2 == IF includes(lower, DotPdf) THEN [a1 EXCEPT !.pdfNode = node.part] ELSE a1
         IN  IF includes(lower, DotZip) THEN [a2 EXCEPT !.zipNode = node.part] ELSE a2

RECURSIVE ClassifyFrom(_, _, _)
ClassifyFrom(acc, nodes, i) ==
    IF i > Len(nodes) THEN acc ELSE ClassifyFrom(ClassifyNode(acc, nodes[i]), nodes, i + 1)

\* let xmlNode, pdfNode, zipNode = null, then the loop
Classify(nodes) ==
    ClassifyFrom([xmlNode |-> Undefined, pdfNode |-> Undefined, zipNode |-> Null], nodes, 1)

\* Strategy with the bundle tested before the pair
Strategy_ZipFirst(c) ==
    IF c.zipNode # Null THEN "bundle"
    ELSE IF c.xmlNode # Undefined /\ c.pdfNode # Undefined THEN "pair"
    ELSE "skip"

\* if (xmlNode && pdfNode) ... else if (zipNode) ...
Strategy(c) ==
    IF c.xmlNode # Undefined /\ c.pdfNode # Undefined THEN "pair"
    ELSE IF c.zipNode # Null THEN "bundle"
    ELSE "skip"

\* the messages of a mailbox that reach the bundle strategy
Bundles(mailbox) ==
    {u \in DOMAIN mailbox :
        mailbox[u].multipart /\ Strategy(Classify(mailbox[u].childNodes)) = "bundle"}

\* the mailboxes a call of processMessages() may find: at most MaxMsgs
\* messages, at most MaxBundles of them reaching the bundle strategy
Mailboxes ==
    {mailbox \in UNION {[1..n -> BodyStructures] : n \in 1..MaxMsgs} :
        Cardinality(Bundles(mailbox)) <= MaxBundles}

\* ------------------------------------------------------------------ tasks
NoNodes == [xmlNode |-> Undefined, pdfNode |-> Undefined, zipNode |-> Null]

\* A message the enumeration has not reached yet.
\*   strategy   the branch #processMessage took
\*   pc         the await the task is suspended at, "done" (returned) or
\*              "rejected" (its promise rejected, and nobody handles it)
\*   size, xml, pdf   the locals meta.expectedSize, xml, pdf (while the
\*              task is inside its try block)
\*   yielded, drained entries the archive stream yielded / that were drained
\*              (while the task is inside its for-await loop)
\*   seen       which of "xml", "pdf" the yielded entry paths contained
\*   unpack     how the archive stream ended: "none" (not read to its
\*              end), "complete" (it held an xml and a pdf entry) or
\*              "lacking" (it did not)
\*   undrained  entries that were yielded and never drained
\*   err        the exception the task's catch block received: one of the
\*              spec's errors, "BuilderFailed" (exec rejected), "IOError" (a
\*              download, stream, read or write failed), "TypeError",
\*              "ReferenceError" or "MoveFailed"
\*   moves      the mailboxes messageMove was requested with, in order
\*   moveFailed a messageMove call was rejected
\*   id         data.id, the id of the Billing that parse returned (while
\*              the task is inside its try block)
\*   downloads, parserCalls, builderCalls   calls of download, parse, exec
\*   ws         the per-message temp directory: "none", "exists",
\*              "removing" (fs.rm running) or "removed"
NoTask ==
    [strategy |-> "none", pc |-> "none", nodes |-> NoNodes,
     size |-> 0, xml |-> FALSE, pdf |-> FALSE,
     yielded |-> 0, drained |-> 0, seen |-> {}, unpack |-> "none", undrained |-> 0,
     err |-> "none", moves |-> <<>>, moveFailed |-> FALSE,
     downloads |-> 0, parserCalls |-> 0, builderCalls |-> 0, ws |-> "none",
     id |-> Nullish]

\* the names bound inside #processXmlPdfNode(xmlNode, pdfNode): its
\* parameters, the imports of processor.js and the globals it uses
ScopeOfProcessXmlPdfNode ==
    {"xmlNode", "pdfNode", "fs", "os", "path", "unzipper", "DateTime", "ImapFlow",
     "buildCommand", "exec", "BillingParser", "process", "console"}

\* #processXmlPdfNode(xmlNode, pdfNode), called with a third argument that
\* it does not bind.  Evaluating msg.uid at line 61 raises a ReferenceError
\* before either download is requested; the catch block logs it and raises
\* again at line 84 (or at line 81 when #log has no error method), so the
\* call rejects without any collaborator having been called.
processXmlPdfNode(f, c) ==
    IF "msg" \in ScopeOfProcessXmlPdfNode
    THEN [NoTask EXCEPT !.strategy = "pair", !.nodes = c, !.pc = "pairDownload",
                        !.downloads = 2]
    ELSE [NoTask EXCEPT !.strategy = "pair", !.nodes = c, !.pc = "rejected",
                        !.err = IF Callable(f.log, "error") THEN "ReferenceError"
                                ELSE "TypeError"]

\* ------------------------------------------------- main's calls at rest
Calls == 1..MaxCalls

\* a call of processMessages() that main has not made yet
NoCycle == [pc |-> "none", cur |-> 0]
NoJobs == [c \in Calls |-> [u \in Uids |-> "none"]]

\* main before its first call of processMessages()
MainIdle ==
    /\ calls = 0
    /\ cycle = [c \in Calls |-> NoCycle]
    /\ job = NoJobs
    /\ builds = [u \in Uids |-> 0]
    /\ moveRequests = [u \in Uids |-> 0]

\* --------------------------------------------------------- #fetchMessages
\* the catch block of #fetchMessages, entered with an exception from `cause`
FatalCatch(cause) ==
    /\ fatal' = cause
    /\ IF ~Callable(fields.log, "error") \/ ~Callable(fields.lock, "release")
       THEN /\ fetchPc' = "rejected"
            /\ UNCHANGED <<releases, logouts>>
       ELSE /\ releases' = releases + 1
            /\ logouts' = logouts + 1
            /\ fetchPc' = "logout"

Init ==
    /\ fields \in {Constructor(MainArgs), Constructor(DocumentedArgs)}
    /\ inbox \in Mailboxes
    /\ proc = "running"
    /\ fetchPc = "start"
    /\ cur = 0
    /\ fatal = "none"
    /\ releases = 0
    /\ logouts = 0
    /\ task = [u \in Uids |-> NoTask]
    /\ xmlFile = Unreadable
    /\ answer = Nullish
    /\ MainIdle
    /\ present = {}

\* processMessages() is called: mkdir of the timestamp directory, then the
\* two early returns, then fetch('1:*') (which is lazy).
FetchStart ==
    /\ proc = "running"
    /\ fetchPc = "start"
    /\ \E mkdirOk, mailboxSelected, usable \in BOOLEAN :
          fetchPc' = IF ~mkdirOk THEN "rejected"
                     ELSE IF ~mailboxSelected THEN "returned"
                     ELSE IF ~usable THEN "returned"
                     ELSE "loop"
    /\ UNCHANGED <<fields, inbox, proc, cur, fatal, releases, logouts, task, pvars, dvars>>

\* The enumeration yields the next message and #processMessage runs up to
\* its first await (or to its end).
NextMessage ==
    /\ proc = "running"
    /\ fetchPc = "loop"
    /\ cur < Len(inbox)
    /\ cur' = cur + 1
    /\ LET msg == inbox[cur + 1]
           c == Classify(msg.childNodes)
       IN  IF ~msg.multipart
           THEN /\ FatalCatch("classification")
                /\ UNCHANGED task
           ELSE /\ UNCHANGED <<fatal, releases, logouts>>
                /\ CASE Strategy(c) = "pair" ->
                          /\ task' = [task EXCEPT ![cur + 1] = processXmlPdfNode(fields, c)]
                          /\ fetchPc' = "loop"
                     [] Strategy(c) = "bundle" ->
                          /\ task' = [task EXCEPT ![cur + 1] =
                                        [NoTask EXCEPT !.strategy = "bundle", !.nodes = c]]
                          /\ fetchPc' = "mkdtemp"
                     [] OTHER ->
                          /\ task' = [task EXCEPT ![cur + 1] =
                                        [NoTask EXCEPT !.strategy = "skip", !.nodes = c]]
                          /\ fetchPc' = "loop"
    /\ UNCHANGED <<fields, inbox, proc, pvars, dvars>>

\* The enumeration is exhausted: the loop ends and #fetchMessages returns.
EnumerationEnds ==
    /\ proc = "running"
    /\ fetchPc = "loop"
    /\ cur = Len(inbox)
    /\ fetchPc' = "returned"
    /\ UNCHANGED <<fields, inbox, proc, cur, fatal, releases, logouts, task, pvars, dvars>>

\* The enumeration itself fails (the transport is broken).
EnumerationFails ==
    /\ proc = "running"
    /\ fetchPc = "loop"
    /\ FatalCatch("enumeration")
    /\ UNCHANGED <<fields, inbox, proc, cur, task, pvars, dvars>>

\* await fs.mkdtemp(timestampDir) settles; on success #processZipNode is
\* called and runs up to its download, and #processMessage returns.
Mkdtemp ==
    /\ proc = "running"
    /\ fetchPc = "mkdtemp"
    /\ \E ok \in BOOLEAN :
          IF ok
          THEN /\ task' = [task EXCEPT ![cur].ws = "exists", ![cur].pc = "download",
                                       ![cur].downloads = 1]
               /\ fetchPc' = "loop"
               /\ UNCHANGED <<fatal, releases, logouts>>
          ELSE /\ FatalCatch("mkdtemp")
               /\ UNCHANGED task
    /\ UNCHANGED <<fields, inbox, proc, cur, pvars, dvars>>

\* await this.#client.logout() settles and process.exit(1) runs.
LogoutDone ==
    /\ proc = "running"
    /\ fetchPc = "logout"
    /\ proc' = "exited"
    /\ UNCHANGED <<fields, inbox, fetchPc, cur, fatal, releases, logouts, task, pvars, dvars>>

\* ----------------------------------------------------------- #moveMessage
\* #moveMessage up to its await: "requested" when messageMove was called,
\* "returned" when the catch block swallowed a failure of log.info, "threw"
\* when the catch block itself raised (log.error is no function).
moveMessageStart(f) ==
    IF Callable(f.log, "info") THEN "requested"
    ELSE IF Callable(f.log, "error") THEN "returned"
    ELSE "threw"

\* moveMessageSettle without its catch block
moveMessageSettle_Rethrow(f, ok) ==
    IF ok THEN "returned" ELSE "threw"

\* #moveMessage after messageMove settled (ok = it resolved)
moveMessageSettle(f, ok) ==
    IF ok THEN "returned"
    ELSE IF Callable(f.log, "error") THEN "returned"
    ELSE "threw"

\* ---------------------------------------------------------- #processZipNode
\* fs.rm(tmpdir, { recursive: true, force: true }), not awaited
rmCalled(t) == [t EXCEPT !.ws = IF @ = "exists" THEN "removing" ELSE @]

\* the for-await loop is left: the stream and its counters are gone
LoopLeft(t) ==
    [t EXCEPT !.yielded = 0, !.drained = 0, !.seen = {},
              !.undrained = t.yielded - t.drained]

\* leaving the try block: its locals (meta, xml, pdf, data) go out of scope
Unwind(t) ==
    IF t.pc = "entries"
    THEN [LoopLeft(t) EXCEPT !.size = 0, !.xml = FALSE, !.pdf = FALSE]
    ELSE [t EXCEPT !.size = 0, !.xml = FALSE, !.pdf = FALSE, !.id = Nullish]

\* the catch block of #processZipNode, entered with exception e
ZipCatch(f, t, e) ==
    LET t0 == [Unwind(t) EXCEPT !.err = e]
        t1 == rmCalled(t0)
    IN  IF ~Callable(f.log, "error")
        THEN [t0 EXCEPT !.pc = "rejected"]
        ELSE CASE moveMessageStart(f) = "requested" ->
                    [t1 EXCEPT !.moves = Append(@, "BAD"), !.pc = "moveBad"]
               [] moveMessageStart(f) = "returned" -> [t1 EXCEPT !.pc = "done"]
               [] OTHER -> [t1 EXCEPT !.pc = "rejected"]

\* HasInvoice satisfied by either file alone
HasInvoice_Either(xml, pdf) == xml \/ pdf

\* if (xml && pdf)
HasInvoice(xml, pdf) == xml /\ pdf

\* if (meta.expectedSize > 4 * 1024 * 1024)
TooBig(size) == size > SizeLimit

\* the xml files a bundle may hold: an unreadable one, one that is no
\* billing document, an AttachedDocument without any identifier and one
\* with an identifier
BundleXmlFiles ==
    {Unreadable,
     File([ApplicationResponse |-> [ID |-> "X"]]),
     File([AttachedDocument |->
             [UUID |-> "Y",
              Attachment |-> [ExternalReference |-> [Description |->
                  [__cdata |-> Xml([Invoice |-> [IssueDate |-> "2024-01-01"]])]]]]]),
     File([AttachedDocument |->
             [ID |-> "X", UUID |-> "Y",
              Attachment |-> [ExternalReference |-> [Description |->
                  [__cdata |-> Xml([Invoice |-> [IssueDate |-> "2024-01-01"]])]]]]])}

Running(u) == proc = "running" /\ task[u].strategy = "bundle"

\* await this.#client.download(...) settles, then the size check
Download(u) ==
    /\ Running(u)
    /\ task[u].pc = "download"
    /\ \E ok \in BOOLEAN :
        \E size \in (IF ok THEN Sizes ELSE {0}) :
          task' = [task EXCEPT ![u] =
                     IF ~ok THEN ZipCatch(fields, @, "IOError")
                     ELSE IF TooBig(size)
                          THEN ZipCatch(fields, [@ EXCEPT !.size = size], "SizeExceeded")
                          ELSE [@ EXCEPT !.size = size, !.pc = "entries"]]
    /\ UNCHANGED <<fields, inbox, proc, fetchPc, cur, fatal, releases, logouts, pvars, dvars>>

\* one iteration of for await (const entry of zip): the stream yields an
\* entry, the matching writes are awaited, the entry is drained
Entry(u) ==
    /\ Running(u)
    /\ task[u].pc = "entries"
    /\ task[u].yielded < MaxEntries
    /\ \E path \in EntryPaths :
        \E pdfWriteOk \in (IF includes(path, DotPdf) THEN BOOLEAN ELSE {TRUE}) :
          LET isXml == includes(path, DotXml)
              isPdf == includes(path, DotPdf)
              t == task[u]
              t1 == [t EXCEPT !.yielded = @ + 1,
                              !.seen = @ \cup (IF isXml THEN {"xml"} ELSE {})
                                         \cup (IF isPdf THEN {"pdf"} ELSE {}),
                              !.xml = @ \/ isXml,
                              !.pdf = @ \/ isPdf]
          IN  task' = [task EXCEPT ![u] =
                         IF isPdf /\ ~pdfWriteOk /\ ~Callable(fields.log, "error")
                         THEN ZipCatch(fields, t1, "TypeError")
                         ELSE [t1 EXCEPT !.drained = @ + 1]]
    /\ UNCHANGED <<fields, inbox, proc, fetchPc, cur, fatal, releases, logouts, pvars, dvars>>

\* the archive stream ends: the loop is left and the captured pair decides
StreamEnds(u) ==
    /\ Running(u)
    /\ task[u].pc = "entries"
    /\ LET t == [task[u] EXCEPT !.unpack = IF task[u].seen = {"xml", "pdf"} THEN "complete"
                                            ELSE "lacking"]
       IN  task' = [task EXCEPT ![u] =
                      IF HasInvoice(t.xml, t.pdf)
                      THEN IF Callable(fields.parser, "parse")
                           THEN [LoopLeft(t) EXCEPT !.pc = "parse", !.parserCalls = @ + 1]
                           ELSE ZipCatch(fields, t, "TypeError")
                      ELSE ZipCatch(fields, t, "NoValidInvoice")]
    /\ UNCHANGED <<fields, inbox, proc, fetchPc, cur, fatal, releases, logouts, pvars, dvars>>

\* the archive stream fails (not a zip, truncated, connection lost)
StreamFails(u) ==
    /\ Running(u)
    /\ task[u].pc = "entries"
    /\ task' = [task EXCEPT ![u] = ZipCatch(fields, @, "IOError")]
    /\ UNCHANGED <<fields, inbox, proc, fetchPc, cur, fatal, releases, logouts, pvars, dvars>>

\* await this.#parser.parse(xmlPath) settles
Parse(u) ==
    /\ Running(u)
    /\ task[u].pc = "parse"
    /\ \E file \in BundleXmlFiles :
          LET data == parse(file)
          IN  task' = [task EXCEPT ![u] =
                         IF data.threw THEN ZipCatch(fields, @, data.v)
                         ELSE [@ EXCEPT !.pc = "writeJson", !.id = data.v.id]]
    /\ UNCHANGED <<fields, inbox, proc, fetchPc, cur, fatal, releases, logouts, pvars, dvars>>

\* await fs.writeFile(jsonPath, ...) settles, then exec(buildCommand(...))
WriteJson(u) ==
    /\ Running(u)
    /\ task[u].pc = "writeJson"
    /\ \E ok \in BOOLEAN :
          task' = [task EXCEPT ![u] =
                     IF ok THEN [@ EXCEPT !.pc = "exec", !.builderCalls = @ + 1]
                     ELSE ZipCatch(fields, @, "IOError")]
    /\ UNCHANGED <<fields, inbox, proc, fetchPc, cur, fatal, releases, logouts, pvars, dvars>>

\* await exec(...) settles, then #moveMessage(uid, GOOD_MAILBOX) starts
Exec(u) ==
    /\ Running(u)
    /\ task[u].pc = "exec"
    /\ \E ok \in BOOLEAN :
          task' = [task EXCEPT ![u] =
                     IF ~ok THEN ZipCatch(fields, @, "BuilderFailed")
                     ELSE CASE moveMessageStart(fields) = "requested" ->
                                 [@ EXCEPT !.moves = Append(@, "GOOD"), !.pc = "moveGood"]
                            [] moveMessageStart(fields) = "returned" ->
                                 [rmCalled(Unwind(@)) EXCEPT !.pc = "done"]
                            [] OTHER -> ZipCatch(fields, @, "TypeError")]
    /\ UNCHANGED <<fields, inbox, proc, fetchPc, cur, fatal, releases, logouts, pvars, dvars>>

\* the move to the success mailbox settles; then fs.rm and return
MoveGood(u) ==
    /\ Running(u)
    /\ task[u].pc = "moveGood"
    /\ \E ok \in BOOLEAN :
          task' = [task EXCEPT ![u] =
                     LET t == [@ EXCEPT !.moveFailed = @ \/ ~ok]
                     IN  IF moveMessageSettle(fields, ok) = "returned"
                         THEN [rmCalled(Unwind(t)) EXCEPT !.pc = "done"]
                         ELSE ZipCatch(fields, t, "MoveFailed")]
    /\ UNCHANGED <<fields, inbox, proc, fetchPc, cur, fatal, releases, logouts, pvars, dvars>>

\* the move to the failure mailbox settles; the catch block ends
MoveBad(u) ==
    /\ Running(u)
    /\ task[u].pc = "moveBad"
    /\ \E ok \in BOOLEAN :
          task' = [task EXCEPT ![u] =
                     LET t == [@ EXCEPT !.moveFailed = @ \/ ~ok]
                     IN  IF moveMessageSettle(fields, ok) = "returned"
                         THEN [t EXCEPT !.pc = "done"]
                         ELSE [t EXCEPT !.pc = "rejected"]]
    /\ UNCHANGED <<fields, inbox, proc, fetchPc, cur, fatal, releases, logouts, pvars, dvars>>

\* the fs.rm nobody awaits finishes
Rm(u) ==
    /\ Running(u)
    /\ task[u].ws = "removing"
    /\ task' = [task EXCEPT ![u].ws = "removed"]
    /\ UNCHANGED <<fields, inbox, proc, fetchPc, cur, fatal, releases, logouts, pvars, dvars>>

\* A rejected task promise has no handler: the runtime ends the process
\* (the default) or only warns, depending on how it was started.
UnhandledRejection ==
    /\ proc = "running"
    /\ \E u \in Uids : task[u].pc = "rejected"
    /\ proc' = "crashed"
    /\ UNCHANGED <<fields, inbox, fetchPc, cur, fatal, releases, logouts, task, pvars, dvars>>

Next ==
    \/ FetchStart
    \/ NextMessage
    \/ EnumerationEnds
    \/ EnumerationFails
    \/ Mkdtemp
    \/ LogoutDone
    \/ UnhandledRejection
    \/ \E u \in Uids :
          \/ Download(u)
          \/ Entry(u)
          \/ StreamEnds(u)
          \/ StreamFails(u)
          \/ Parse(u)
          \/ WriteJson(u)
          \/ Exec(u)
          \/ MoveGood(u)
          \/ MoveBad(u)
          \/ Rm(u)

Spec == Init /\ [][Next]_<<vars, pvars, dvars>>

\* ------------------------------------------------ BillingParser.parse alone
\* One call of parse on a file drawn from XmlFiles; the processor has
\* fetched nothing and stays as it is.
ParserInit ==
    /\ xmlFile \in XmlFiles
    /\ answer = Nullish
    /\ fields = Constructor(DocumentedArgs)
    /\ inbox = <<>>
    /\ proc = "running"
    /\ fetchPc = "start"
    /\ cur = 0
    /\ fatal = "none"
    /\ releases = 0
    /\ logouts = 0
    /\ task = [u \in Uids |-> NoTask]
    /\ MainIdle
    /\ present = {}

\* await parser.parse(xmlPath) settles
ParseFile ==
    /\ answer = Nullish
    /\ answer' = <<parse(xmlFile)>>
    /\ UNCHANGED <<xmlFile, vars, dvars>>

ParserNext == ParseFile

ParserSpec == ParserInit /\ [][ParserNext]_<<vars, pvars, dvars>>

\* ------------------------------------------------------------------- main
\* main calls processMessages() once and again on every tick of its
\* interval, never awaiting the promise a call returns.  Each call runs
\* #fetchMessages over the messages still in the mailbox and starts a task
\* per message; the steps of a bundle task up to exec are taken together
\* here, and every messageMove is taken to succeed.
DriverInit ==
    /\ fields \in {Constructor(MainArgs), Constructor(DocumentedArgs)}
    /\ inbox \in Mailboxes
    /\ present = DOMAIN inbox
    /\ proc = "running"
    /\ MainIdle
    /\ fetchPc = "start"
    /\ cur = 0
    /\ fatal = "none"
    /\ releases = 0
    /\ logouts = 0
    /\ task = [u \in Uids |-> NoTask]
    /\ xmlFile = Unreadable
    /\ answer = Nullish

\* mailProcessor.processMessages() at main.js:43-44
FirstCall ==
    /\ proc = "running"
    /\ calls = 0
    /\ calls' = 1
    /\ cycle' = [cycle EXCEPT ![1].pc = "start"]
    /\ UNCHANGED <<vars, pvars, present, job, builds, moveRequests>>

\* a tick of setInterval: mailProcessor.processMessages() at main.js:56-57
Tick ==
    /\ proc = "running"
    /\ calls >= 1
    /\ calls < MaxCalls
    /\ calls' = calls + 1
    /\ cycle' = [cycle EXCEPT ![calls + 1].pc = "start"]
    /\ UNCHANGED <<vars, pvars, present, job, builds, moveRequests>>

\* the catch block of #fetchMessages in call c
CycleCatch(c) ==
    cycle' = [cycle EXCEPT ![c].pc =
                 IF ~Callable(fields.log, "error") \/ ~Callable(fields.lock, "release")
                 THEN "rejected" ELSE "logout"]

\* mkdir and the two early returns of #fetchMessages
CycleStart(c) ==
    /\ proc = "running"
    /\ cycle[c].pc = "start"
    /\ \E mkdirOk, mailboxSelected, usable \in BOOLEAN :
          cycle' = [cycle EXCEPT ![c].pc =
                       IF ~mkdirOk THEN "rejected"
                       ELSE IF ~mailboxSelected THEN "returned"
                       ELSE IF ~usable THEN "returned"
                       ELSE "loop"]
    /\ UNCHANGED <<vars, pvars, calls, present, job, builds, moveRequests>>

\* the messages call c has still to enumerate
Ahead(c) == {u \in present : u > cycle[c].cur}

\* the uid of the next message call c enumerates
Upcoming(c) == CHOOSE u \in Ahead(c) : \A v \in Ahead(c) : u <= v

\* the enumeration of call c yields its next message; #processMessage runs
\* up to its first await
CycleNext(c) ==
    /\ proc = "running"
    /\ cycle[c].pc = "loop"
    /\ Ahead(c) # {}
    /\ LET u == Upcoming(c)
           msg == inbox[u]
           nodes == Classify(msg.childNodes)
       IN  IF ~msg.multipart
           THEN /\ CycleCatch(c)
                /\ UNCHANGED job
           ELSE CASE Strategy(nodes) = "pair" ->
                       /\ job' = [job EXCEPT ![c][u] = processXmlPdfNode(fields, nodes).pc]
                       /\ cycle' = [cycle EXCEPT ![c].cur = u]
                  [] Strategy(nodes) = "bundle" ->
                       /\ cycle' = [cycle EXCEPT ![c].cur = u, ![c].pc = "mkdtemp"]
                       /\ UNCHANGED job
                  [] OTHER ->
                       /\ cycle' = [cycle EXCEPT ![c].cur = u]
                       /\ UNCHANGED job
    /\ UNCHANGED <<vars, pvars, calls, present, builds, moveRequests>>

\* await fs.mkdtemp(timestampDir) settles; #processZipNode is started
CycleMkdtemp(c) ==
    /\ proc = "running"
    /\ cycle[c].pc = "mkdtemp"
    /\ \E ok \in BOOLEAN :
          IF ok
          THEN /\ job' = [job EXCEPT ![c][cycle[c].cur] = "prepare"]
               /\ cycle' = [cycle EXCEPT ![c].pc = "loop"]
          ELSE /\ CycleCatch(c)
               /\ UNCHANGED job
    /\ UNCHANGED <<vars, pvars, calls, present, builds, moveRequests>>

\* the enumeration of call c is exhausted
CycleEnds(c) ==
    /\ proc = "running"
    /\ cycle[c].pc = "loop"
    /\ Ahead(c) = {}
    /\ cycle' = [cycle EXCEPT ![c].pc = "returned"]
    /\ UNCHANGED <<vars, pvars, calls, present, job, builds, moveRequests>>

\* the enumeration of call c fails
CycleFails(c) ==
    /\ proc = "running"
    /\ cycle[c].pc = "loop"
    /\ CycleCatch(c)
    /\ UNCHANGED <<vars, pvars, calls, present, job, builds, moveRequests>>

\* lock.release(), await client.logout(), process.exit(1)
CycleExits(c) ==
    /\ proc = "running"
    /\ cycle[c].pc = "logout"
    /\ proc' = "exited"
    /\ UNCHANGED <<fields, inbox, fetchPc, cur, fatal, releases, logouts, task, pvars, dvars>>

\* the catch block of #processZipNode up to its await: where the task
\* stands afterwards
JobCatch(f) ==
    IF ~Callable(f.log, "error") THEN "rejected"
    ELSE CASE moveMessageStart(f) = "requested" -> "moveBad"
           [] moveMessageStart(f) = "returned" -> "done"
           [] OTHER -> "rejected"

\* the move the task standing at pc has just requested
Requested(pc) == IF pc \in {"moveGood", "moveBad"} THEN 1 ELSE 0

\* download, unzip, parse and writeFile of the task of call c for message
\* u: they succeed and exec is called, or one of them fails
JobPrepare(c, u) ==
    /\ proc = "running"
    /\ job[c][u] = "prepare"
    /\ \E ok \in BOOLEAN :
          LET pc == IF ok /\ Callable(fields.parser, "parse") THEN "exec"
                    ELSE JobCatch(fields)
          IN  /\ job' = [job EXCEPT ![c][u] = pc]
              /\ builds' = [builds EXCEPT ![u] = @ + (IF pc = "exec" THEN 1 ELSE 0)]
              /\ moveRequests' = [moveRequests EXCEPT ![u] = @ + Requested(pc)]
    /\ UNCHANGED <<vars, pvars, calls, cycle, present>>

\* await exec(...) settles, then the move is requested
JobExec(c, u) ==
    /\ proc = "running"
    /\ job[c][u] = "exec"
    /\ \E ok \in BOOLEAN :
          LET pc == IF ~ok THEN JobCatch(fields)
                    ELSE CASE moveMessageStart(fields) = "requested" -> "moveGood"
                           [] moveMessageStart(fields) = "returned" -> "done"
                           [] OTHER -> JobCatch(fields)
          IN  /\ job' = [job EXCEPT ![c][u] = pc]
              /\ moveRequests' = [moveRequests EXCEPT ![u] = @ + Requested(pc)]
    /\ UNCHANGED <<vars, pvars, calls, cycle, present, builds>>

\* await messageMove(...) settles: the message has left the mailbox
JobMove(c, u) ==
    /\ proc = "running"
    /\ job[c][u] \in {"moveGood", "moveBad"}
    /\ job' = [job EXCEPT ![c][u] = "done"]
    /\ present' = present \ {u}
    /\ UNCHANGED <<vars, pvars, calls, cycle, builds, moveRequests>>

\* a rejected task promise has no handler
JobUnhandledRejection ==
    /\ proc = "running"
    /\ \E c \in Calls, u \in Uids : job[c][u] = "rejected"
    /\ proc' = "crashed"
    /\ UNCHANGED <<fields, inbox, fetchPc, cur, fatal, releases, logouts, task, pvars, dvars>>

DriverNext ==
    \/ FirstCall
    \/ Tick
    \/ JobUnhandledRejection
    \/ \E c \in Calls :
          \/ CycleStart(c)
          \/ CycleNext(c)
          \/ CycleMkdtemp(c)
          \/ CycleEnds(c)
          \/ CycleFails(c)
          \/ CycleExits(c)
          \/ \E u \in Uids :
                \/ JobPrepare(c, u)
                \/ JobExec(c, u)
                \/ JobMove(c, u)

DriverSpec == DriverInit /\ [][DriverNext]_<<vars, pvars, dvars>>

\* ------------------------------------------------------------ properties
Finished(t) == t.pc \in {"done", "rejected"}
InFlight(t) == t.pc \notin {"none", "done", "rejected"} \/ t.ws = "removing"

\* the message has a part whose filename contains suffix, ignoring case
HasPart(msg, suffix) ==
    \E i \in DOMAIN msg.childNodes :
        includes(toLowerCase(msg.childNodes[i].filename), suffix)

\* C1: every message for which the direct-pair or the bundle strategy was
\* selected has a move to the success or to the failure mailbox requested,
\* whatever the outcome of each step: once its processing is over, a move
\* was requested.
C1_EveryMessageRouted ==
    \A u \in Uids :
        (task[u].strategy \in {"pair", "bundle"} /\ Finished(task[u]))
            => task[u].moves # <<>>

\* C2: a failure in a per-message stage never aborts the cycle: the fatal
\* path is taken only when the enumeration itself fails, and the process is
\* not ended by a per-message failure.
C2_OnlyEnumerationIsFatal ==
    /\ fatal \in {"none", "enumeration"}
    /\ proc # "crashed"

\* C3: messages are processed one at a time in enumeration order: no step
\* of a later message starts before the route and cleanup of an earlier one
\* have completed, so at most one message is in flight.
C3_OneMessageInFlight ==
    /\ Cardinality({u \in Uids : InFlight(task[u])}) <= 1
    /\ \A u, v \in Uids :
          (u < v /\ task[v].strategy # "none") => ~InFlight(task[u])

\* C4: in the direct-pair strategy the message is moved to the success
\* mailbox when the downloads, the writes and the Document Builder all
\* succeed, to the failure mailbox when one of them fails, never to both.
C4_PairRouted ==
    \A u \in Uids :
        (task[u].strategy = "pair" /\ Finished(task[u]))
            => /\ task[u].moves \in {<<"GOOD">>, <<"BAD">>}
               /\ task[u].moves = <<"BAD">> <=> task[u].err \in {"IOError", "BuilderFailed"}

\* C5: the temp workspace created for a message no longer exists once the
\* message's processing has completed, on the success and on the failure
\* path.
C5_WorkspaceRemoved ==
    \A u \in Uids :
        (task[u].ws # "none" /\ Finished(task[u])) => task[u].ws = "removed"

\* C6: when the enumeration fails, the lock is released exactly once and
\* the session logged out exactly once before the process terminates, and
\* from the failure on no per-message step of the cycle is executed.
C6_FatalStopsCycle ==
    [][/\ (fatal = "enumeration" => task' = task)
       /\ ((fatal' = "enumeration" /\ proc' # "running")
              => (releases' = 1 /\ logouts' = 1))]_vars

\* C7: a failed mailbox move is swallowed inside moveMessage: the caller
\* goes on as after a successful move (the task returns, its catch block
\* is not entered by it), and no second move of the message is requested.
C7_MoveFailureSwallowed ==
    \A u \in Uids :
        /\ Len(task[u].moves) <= 1
        /\ task[u].moveFailed
             => /\ task[u].pc = "done"
                /\ task[u].err # "MoveFailed"
                /\ (task[u].moves = <<"GOOD">> => task[u].err = "none")

\* C7 witness: the move to the success mailbox failed and the task returned
C7_Witness ==
    \E u \in Uids :
        task[u].moveFailed /\ task[u].moves = <<"GOOD">> /\ task[u].pc = "done"

\* C8: a message with an xml-suffixed and a pdf-suffixed part takes the
\* direct-pair strategy and the bundle strategy is never started for it:
\* no zip download, no per-message workspace, also with a zip part present.
C8_PairBeforeBundle ==
    \A u \in 1..cur :
        (inbox[u].multipart /\ HasPart(inbox[u], DotXml) /\ HasPart(inbox[u], DotPdf))
            => /\ task[u].strategy = "pair"
               /\ task[u].ws = "none"
               /\ task[u].pc \in {"rejected", "pairDownload"}
               /\ task[u].unpack = "none"

\* C8 witness: a message with xml, pdf and zip parts was classified
C8_Witness ==
    \E u \in 1..cur :
        /\ inbox[u].multipart
        /\ HasPart(inbox[u], DotXml) /\ HasPart(inbox[u], DotPdf) /\ HasPart(inbox[u], DotZip)
        /\ task[u].strategy = "pair"

\* C9: a bundle whose download declares more than 4 MiB fails before any
\* entry is read or written and before the parser or the Document Builder
\* is invoked, and the message is routed to the failure mailbox; a bundle
\* of exactly 4 MiB is not rejected by the size check.  (No task goes on
\* with a declared size above the limit; one rejected for its size has
\* read no entry, called neither parser nor builder, and ends moved to the
\* failure mailbox.)
C9_SizeExceeded ==
    \A u \in Uids :
        /\ task[u].size <= SizeLimit
        /\ task[u].err = "SizeExceeded"
             => /\ task[u].unpack = "none" /\ task[u].undrained = 0
                /\ task[u].parserCalls = 0 /\ task[u].builderCalls = 0
                /\ (Finished(task[u]) => task[u].moves = <<"BAD">>)

\* C10: a bundle lacking an xml or a pdf entry fails with NoValidInvoice,
\* and only once the archive stream was read to its end with every yielded
\* entry drained; the parser and the Document Builder are never invoked.
C10_NoValidInvoice ==
    \A u \in Uids :
        /\ task[u].unpack = "lacking"
             => /\ task[u].err = "NoValidInvoice"
                /\ task[u].parserCalls = 0 /\ task[u].builderCalls = 0
        /\ task[u].err = "NoValidInvoice"
             => /\ task[u].unpack = "lacking"
                /\ task[u].undrained = 0
        /\ task[u].pc = "entries" => task[u].drained = task[u].yielded

\* C10 witness: an archive was read to its end, lacked a file and failed
C10_Witness ==
    \E u \in Uids :
        task[u].unpack = "lacking" /\ task[u].err = "NoValidInvoice" /\ Finished(task[u])

\* C11: in the bundle strategy a move to the success mailbox is requested
\* only for a message whose parse returned a Billing with a non-empty id
\* and whose Document Builder run then succeeded; when the id is empty,
\* parse fails with MissingInvoiceId, the Document Builder is not invoked
\* and the move to the failure mailbox is requested.
C11_SuccessNeedsInvoiceId ==
    \A u \in Uids :
        /\ task[u].pc = "moveGood" => ~Not(task[u].id)
        /\ task[u].moves # <<>> /\ task[u].moves[1] = "GOOD"
             => /\ task[u].parserCalls = 1
                /\ task[u].builderCalls = 1
                /\ task[u].err = "none"
        /\ task[u].err = "MissingInvoiceId"
             => /\ task[u].builderCalls = 0
                /\ task[u].moves = <<"BAD">>

\* C11 witness: a bundle whose document has no identifier ended in the
\* failure mailbox
C11_Witness ==
    \E u \in Uids :
        /\ task[u].err = "MissingInvoiceId" /\ task[u].pc = "done"
        /\ task[u].moves = <<"BAD">> /\ task[u].parserCalls = 1

\* C12: a bundle whose parsed XML has none of Invoice, CreditNote and
\* AttachedDocument fails with UnrecognizedDocument; once its processing is
\* over the move to the failure mailbox, and no other move, was requested
\* and its temp workspace is removed.
C12_UnrecognizedDocument ==
    \A u \in Uids :
        task[u].err = "UnrecognizedDocument"
            => /\ task[u].builderCalls = 0
               /\ task[u].moves = <<"BAD">>
               /\ Finished(task[u]) => task[u].ws = "removed"

\* the call of parse has settled
Parsed == answer # Nullish
\* it returned a Billing
Extracted == Parsed /\ ~answer[1].threw
\* the Billing it returned
Billing == answer[1].v
\* the document under the root element of the file, and that element
Root == CHOOSE variant \in Variants : variant \in DOMAIN xmlFile.parsedXML
Recognized == xmlFile.readable /\ \E variant \in Variants : variant \in DOMAIN xmlFile.parsedXML
Document == xmlFile.parsedXML[Root]

\* the minimal Invoice: ID, UUID, IssueDate and the two parties
MinimalInvoice ==
    [ID |-> "X", UUID |-> "Y", IssueDate |-> "2024-01-01",
     AccountingSupplierParty |-> [Party |-> Party("1", "A")],
     AccountingCustomerParty |-> [Party |-> Party("2", "B")]]

\* C13: parse of a minimal Invoice (ID "X", UUID "Y", IssueDate
\* "2024-01-01", supplier 1/A, customer 2/B, no Attachment element) returns
\* {id: "X", cufe: "Y", date: "2024-01-01", value: 0, proveedor: {nit: "1",
\* nombre: "A"}, cliente: {nit: "2", nombre: "B"}}.
C13_MinimalInvoice ==
    (Parsed /\ xmlFile = File([Invoice |-> MinimalInvoice]))
        => /\ ~answer[1].threw
           /\ Billing = [id |-> <<"X">>, cufe |-> <<"Y">>, date |-> <<"2024-01-01">>,
                         value |-> <<0>>,
                         proveedor |-> [nit |-> <<"1">>, nombre |-> <<"A">>],
                         cliente |-> [nit |-> <<"2">>, nombre |-> <<"B">>]]

\* parse ended with the error of parser.js:177
ExtractionFailed == Parsed /\ answer[1].threw /\ answer[1].v = "ExtractionError"

\* the tree of the document embedded in a document's Attachment
Embedded(document) == document.Attachment.ExternalReference.Description.__cdata.xml

\* the candidates for the id, in the order of the chain, ParentDocumentID
\* counting as absent when it is "null"
IdCandidates(document, attachment) ==
    <<Get(attachment, "ID"),
      OptGet(Get(attachment, "Invoice"), "ID"),
      OptGet(Get(attachment, "CreditNote"), "ID"),
      IF Get(document, "ParentDocumentID") = <<"null">> THEN Nullish
      ELSE Get(document, "ParentDocumentID"),
      Get(document, "AltID"),
      OptGet(OptGet(Get(document, "ParentDocumentLineReference"), "DocumentReference"), "ID"),
      Get(document, "ID")>>

\* the first candidate that is neither absent nor empty, else ""
FirstNonEmpty(candidates) ==
    IF \E i \in DOMAIN candidates : ~Not(candidates[i])
    THEN candidates[CHOOSE i \in DOMAIN candidates :
                        /\ ~Not(candidates[i])
                        /\ \A j \in 1..(i - 1) : Not(candidates[j])]
    ELSE <<"">>

\* C14: the id of the Billing is the first non-empty, non-null value of
\* the chain Attachment ID, Attachment Invoice.ID, Attachment
\* CreditNote.ID, ParentDocumentID, AltID,
\* ParentDocumentLineReference.DocumentReference.ID, ID; an empty earlier
\* candidate does not stop the chain (and parse rejects a file for its id
\* only when no candidate is non-empty).
C14_FirstNonEmptyId ==
    (Parsed /\ Recognized /\ ~ExtractionFailed)
        => LET expected == FirstNonEmpty(IdCandidates(Document, Embedded(Document)))
           IN  IF expected = <<"">>
               THEN answer[1].threw /\ answer[1].v = "MissingInvoiceId"
               ELSE ~answer[1].threw /\ Billing.id = expected

\* the object without its property k
Without(object, k) == [f \in DOMAIN object \ {k} |-> object[f]]

\* the file holds an AttachedDocument whose ParentDocumentID is "null"
NullParent ==
    /\ Recognized /\ Root = "AttachedDocument"
    /\ Get(Document, "ParentDocumentID") = <<"null">>

\* C15: for an AttachedDocument whose ParentDocumentID is the string
\* "null", parse ends as it does for the same document without a
\* ParentDocumentID (the chain goes on with AltID, the line reference and
\* the document's ID), and the id is never that "null".
C15_NullParentDocumentID ==
    (Parsed /\ NullParent)
        => LET other == parse(File([AttachedDocument |-> Without(Document, "ParentDocumentID")]))
           IN  /\ answer[1].threw = other.threw
               /\ answer[1].threw => answer[1].v = other.v
               /\ ~answer[1].threw => Billing = other.v /\ Billing.id # <<"null">>

\* C15 witness: a Billing extracted from such a document, the id being
\* the document's own ID, the last candidate of the chain
C15_Witness ==
    /\ Extracted /\ NullParent
    /\ Get(Document, "AltID") = Nullish
    /\ Get(Document, "ParentDocumentLineReference") = Nullish
    /\ Get(Embedded(Document), "Invoice") = <<[IssueDate |-> "2024-01-01"]>>
    /\ Billing.id = <<"X">>

\* the value the claim derives from the embedded document
EmbeddedValue(attachment) ==
    Coalesce(OptGet(OptGet(Get(attachment, "Invoice"), "LegalMonetaryTotal"), "PayableAmount"),
    Coalesce(OptGet(Get(attachment, "LegalMonetaryTotal"), "PayableAmount"), <<0>>))

\* C16: for an Invoice, a CreditNote and an AttachedDocument alike, the
\* value of the Billing is the embedded document's
\* Invoice.LegalMonetaryTotal.PayableAmount, else the embedded document's
\* LegalMonetaryTotal.PayableAmount, else 0: it is read from the embedded
\* document, not from the primary one.
C16_ValueFromAttachment ==
    Extracted => Billing.value = EmbeddedValue(Embedded(Document))

\* the party element a variant's extractor looks for: SenderParty or
\* ReceiverParty first for an AttachedDocument, the Party of the wrapping
\* element otherwise
PartyElement(direct, wrapper) ==
    IF Root = "AttachedDocument"
    THEN Coalesce(Get(Document, direct), OptGet(Get(Document, wrapper), "Party"))
    ELSE OptGet(Get(Document, wrapper), "Party")

\* a party is absent: no party element (its wrapping element missing or
\* without Party), or a party element without PartyTaxScheme
Absent(party) == party = Nullish \/ Get(party[1], "PartyTaxScheme") = Nullish

\* the document with both wrapped parties present
WithParties(document) ==
    [AccountingSupplierParty |-> [Party |-> Party("1", "A")],
     AccountingCustomerParty |-> [Party |-> Party("2", "B")]] @@ document

\* C17: for every variant an absent supplier or customer party becomes
\* {nit: '', nombre: ''} and never makes the extraction fail: a file that
\* parse accepts when both parties are present is accepted without them.
C17_AbsentParty ==
    (Parsed /\ Recognized /\ ~parse(File(Root :> WithParties(Document))).threw)
        => /\ ~answer[1].threw
           /\ Absent(PartyElement("SenderParty", "AccountingSupplierParty"))
                => Billing.proveedor = [nit |-> <<"">>, nombre |-> <<"">>]
           /\ Absent(PartyElement("ReceiverParty", "AccountingCustomerParty"))
                => Billing.cliente = [nit |-> <<"">>, nombre |-> <<"">>]

\* C18: in the bundle strategy the temp workspace of a message is deleted
\* before the move of that message is requested, on the success and on
\* the failure path: no move has been requested for a message whose
\* workspace still exists or is still being removed.
C18_RemovedBeforeMove ==
    \A u \in Uids :
        (task[u].strategy = "bundle" /\ task[u].moves # <<>>) => task[u].ws = "removed"

\* the part number of the first node whose filename contains suffix,
\* ignoring case; none when no node does
FirstPart(msg, suffix, none) ==
    IF HasPart(msg, suffix)
    THEN msg.childNodes[CHOOSE i \in DOMAIN msg.childNodes :
             /\ includes(toLowerCase(msg.childNodes[i].filename), suffix)
             /\ \A j \in 1..(i - 1) :
                    ~includes(toLowerCase(msg.childNodes[j].filename), suffix)].part
    ELSE none

\* C19: of several parts whose filename matches the same suffix, the first
\* in part-list order is the one selected for that type; a later match
\* never replaces it.
C19_FirstPartWins ==
    \A u \in 1..cur :
        inbox[u].multipart
            => /\ task[u].nodes.xmlNode = FirstPart(inbox[u], DotXml, Undefined)
               /\ task[u].nodes.pdfNode = FirstPart(inbox[u], DotPdf, Undefined)
               /\ task[u].nodes.zipNode = FirstPart(inbox[u], DotZip, Null)

\* a task is at work on the message
AtWork(pc) == pc \in {"prepare", "exec", "moveGood", "moveBad"}

\* C20: whatever the ticks of main's loop, each message has a move
\* requested at most once and the Document Builder run for it at most
\* once, and no message is being processed by two calls of
\* processMessages() at the same time.
C20_OneCycleAtATime ==
    \A u \in Uids :
        /\ moveRequests[u] <= 1
        /\ builds[u] <= 1
        /\ Cardinality({c \in Calls : AtWork(job[c][u])}) <= 1

====
